---------------------------- MODULE Spec2Model ----------------------------
(***************************************************************************)
(* Orbital propagation and hierarchical transform engine of the three.js   *)
(* solar system (getJulianDate, getMeanAnomaly, getOrbitPosition,          *)
(* updateBodyPhysics, updatePhysics, animate and the UI handlers).         *)
(*                                                                         *)
(* JavaScript Numbers are modelled as decimal fixed-point values with      *)
(* eight fractional digits, held in two words (integer part, fraction),    *)
(* plus the IEEE special values NaN, +Infinity and -Infinity.  Products    *)
(* and quotients are truncated toward zero to eight fractional digits.     *)
(* A Date is an exact integer number of milliseconds.                      *)
(***************************************************************************)
EXTENDS Integers, Sequences, FiniteSets, TLC

(***************************************************************************)
(* JavaScript Number arithmetic                                            *)
(***************************************************************************)

\* One unit of the integer part, in units of the last fractional digit.
B == 10000 * 10000

\* const v = x; F(v): the value x is computed once, before F uses it.  (A LET
\* definition is computed by TLC where it is used, and again at every use.)
Let(x, F(_)) == CASE x = x -> F(x)
\* Half-word used to split a word for an overflow-free product.
H == 100 * 100

NaN == [k |-> "nan", neg |-> FALSE, hi |-> 0, lo |-> 0]
Infinity == [k |-> "inf", neg |-> FALSE, hi |-> 0, lo |-> 0]
NegInfinity == [k |-> "inf", neg |-> TRUE, hi |-> 0, lo |-> 0]
Inf(n) == IF n THEN NegInfinity ELSE Infinity

\* The finite number (-1)^n * (h + l / B); zero is always +0.
Fin(n, h, l) == [k |-> "fin", neg |-> n /\ (h # 0 \/ l # 0), hi |-> h, lo |-> l]
\* Literals: P(h, l) = h.l and M(h, l) = -h.l, l written with eight digits.
P(h, l) == Fin(FALSE, h, l)
M(h, l) == Fin(TRUE, h, l)
Zero == P(0, 0)
One == P(1, 0)
FromInt(i) == IF i < 0 THEN Fin(TRUE, -i, 0) ELSE Fin(FALSE, i, 0)

IsNaN(x) == x.k = "nan"
IsFinite(x) == x.k = "fin"
IsZero(x) == x.k = "fin" /\ x.hi = 0 /\ x.lo = 0

\* Magnitudes <<hi, lo>> of finite numbers.
MagLt(a, b) == a[1] < b[1] \/ (a[1] = b[1] /\ a[2] < b[2])
MagLe(a, b) == a[1] < b[1] \/ (a[1] = b[1] /\ a[2] <= b[2])
MagAdd(a, b) == <<a[1] + b[1] + ((a[2] + b[2]) \div B), (a[2] + b[2]) % B>>
\* a - b for a >= b
MagSub(a, b) ==
  IF a[2] >= b[2] THEN <<a[1] - b[1], a[2] - b[2]>>
  ELSE <<a[1] - b[1] - 1, a[2] + B - b[2]>>
Mag(x) == <<x.hi, x.lo>>
OfMag(n, m) == Fin(n, m[1], m[2])

FNeg(x) ==
  IF x.k = "nan" THEN NaN
  ELSE IF x.k = "inf" THEN Inf(~x.neg)
  ELSE Fin(~x.neg, x.hi, x.lo)

FAbs(x) ==
  IF x.k = "nan" THEN NaN
  ELSE IF x.k = "inf" THEN Infinity
  ELSE Fin(FALSE, x.hi, x.lo)

\* x + y
FAdd(x, y) ==
  IF x.k = "nan" \/ y.k = "nan" THEN NaN
  ELSE IF x.k = "inf" /\ y.k = "inf" THEN (IF x.neg = y.neg THEN x ELSE NaN)
  ELSE IF x.k = "inf" THEN x
  ELSE IF y.k = "inf" THEN y
  ELSE IF x.neg = y.neg THEN OfMag(x.neg, MagAdd(Mag(x), Mag(y)))
  ELSE IF MagLe(Mag(y), Mag(x)) THEN OfMag(x.neg, MagSub(Mag(x), Mag(y)))
  ELSE OfMag(y.neg, MagSub(Mag(y), Mag(x)))

\* x - y
FSub(x, y) == FAdd(x, FNeg(y))

\* x < y, x > y, x <= y (false when either is NaN)
FLt(x, y) ==
  IF x.k = "nan" \/ y.k = "nan" THEN FALSE
  ELSE IF x.k = "inf" THEN x.neg /\ ~(y.k = "inf" /\ y.neg)
  ELSE IF y.k = "inf" THEN ~y.neg
  ELSE IF x.neg /\ ~y.neg THEN TRUE
  ELSE IF ~x.neg /\ y.neg THEN FALSE
  ELSE IF x.neg THEN MagLt(Mag(y), Mag(x))
  ELSE MagLt(Mag(x), Mag(y))
FGt(x, y) == FLt(y, x)
FLe(x, y) == ~IsNaN(x) /\ ~IsNaN(y) /\ ~FLt(y, x)

\* The product a * d of two words a < 10^9 and d < B, as <<a*d \div B, a*d % B>>.
WordMulSum(high, mid, low) ==
  <<high + (mid \div H) + (((mid % H) * H + low) \div B), ((mid % H) * H + low) % B>>
WordMul(a, d) ==
  WordMulSum((a \div H) * (d \div H),
             (a \div H) * (d % H) + (a % H) * (d \div H),
             (a % H) * (d % H))

\* |x| * |y| truncated to eight fractional digits
MagMulSum(ac, ad, cb, bd) ==
  <<ac + ad[1] + cb[1] + ((ad[2] + cb[2] + bd[1]) \div B), (ad[2] + cb[2] + bd[1]) % B>>
MagMul(x, y) ==
  MagMulSum(x[1] * y[1], WordMul(x[1], y[2]), WordMul(y[1], x[2]), WordMul(x[2], y[2]))

\* x * y
FMul(x, y) ==
  IF x.k = "nan" \/ y.k = "nan" THEN NaN
  ELSE IF x.k = "inf" \/ y.k = "inf" THEN
    (IF IsZero(x) \/ IsZero(y) THEN NaN ELSE Inf(x.neg # y.neg))
  ELSE OfMag(x.neg # y.neg, MagMul(Mag(x), Mag(y)))

\* The number of decimal digits of a word (0 for 0).
RECURSIVE Digits(_)
Digits(n) == IF n = 0 THEN 0 ELSE 1 + Digits(n \div 10)

RECURSIVE Pow10(_)
Pow10(n) == IF n = 0 THEN 1 ELSE 10 * Pow10(n - 1)

\* The i-th decimal digit (from the most significant, i = 1) of the dividend
\* x * B, whose digits are those of x.hi (nh of them), the eight of x.lo and
\* eight zeros.
DividendDigit(x, nh, i) ==
  IF i <= nh THEN (x[1] \div Pow10(nh - i)) % 10
  ELSE IF i <= nh + 8 THEN (x[2] \div Pow10(nh + 8 - i)) % 10
  ELSE 0

\* q * y for a digit q and a magnitude y
MagTimesDigit(q, y) == <<q * y[1] + ((q * y[2]) \div B), (q * y[2]) % B>>

\* The largest digit q with q * y <= r, for r < 10 * y, from an estimate q
\* that is that digit or one less.
QuotientDigit(r, y, q) ==
  IF q < 9 /\ MagLe(MagTimesDigit(q + 1, y), r) THEN q + 1 ELSE q

\* The digit estimated from the leading digits of r and y (at least four of y)
DivDigit(r10, y) ==
  IF y[1] = 0 THEN (r10[1] * B + r10[2]) \div y[2]
  ELSE IF y[1] >= 1000 THEN QuotientDigit(r10, y, r10[1] \div (y[1] + 1))
  ELSE QuotientDigit(r10, y, (r10[1] * H + r10[2] \div H) \div (y[1] * H + y[2] \div H + 1))

\* One step of the long division of x * B by y: the state is <<r, q>>, the
\* running remainder and the quotient so far, and i is the digit brought down.
DivStepWith(r10, d, y, q) ==
  <<MagSub(r10, MagTimesDigit(d, y)), MagAdd(MagTimesDigit(10, q), <<0, d>>)>>
DivStep(x, y, nh, i, s) ==
  Let(MagAdd(MagTimesDigit(10, s[1]), <<0, DividendDigit(x, nh, i)>>), LAMBDA r10 :
    DivStepWith(r10, DivDigit(r10, y), y, s[2]))

\* Steps i .. i + n - 1 of the long division, by halving.
RECURSIVE DivSteps(_, _, _, _, _, _)
DivSteps(x, y, nh, i, n, s) ==
  IF n = 1 THEN DivStep(x, y, nh, i, s)
  ELSE Let(DivSteps(x, y, nh, i, n \div 2, s), LAMBDA m :
         DivSteps(x, y, nh, i + n \div 2, n - n \div 2, m))

\* |x| / |y| truncated to eight fractional digits, y # 0
MagDivDigits(x, y, nh) == DivSteps(x, y, nh, 1, nh + 16, <<(<<0, 0>>), (<<0, 0>>)>>)[2]
MagDiv(x, y) == MagDivDigits(x, y, Digits(x[1]))

\* x / y
FDiv(x, y) ==
  IF x.k = "nan" \/ y.k = "nan" THEN NaN
  ELSE IF x.k = "inf" THEN (IF y.k = "inf" THEN NaN ELSE Inf(x.neg # y.neg))
  ELSE IF y.k = "inf" THEN Zero
  ELSE IF IsZero(y) THEN (IF IsZero(x) THEN NaN ELSE Inf(x.neg # y.neg))
  ELSE OfMag(x.neg # y.neg, MagDiv(Mag(x), Mag(y)))

\* |x| / 2
MagHalf(x) == <<x[1] \div 2, ((x[1] % 2) * B + x[2]) \div 2>>

\* One Newton step toward the square root of x from the estimate y >= sqrt(x):
\* the state is <<y, done>>.
SqrtNext(y, y2) == IF MagLe(y, y2) THEN <<y, TRUE>> ELSE <<y2, FALSE>>
SqrtStep(x, s) ==
  IF s[2] THEN s ELSE SqrtNext(s[1], MagHalf(MagAdd(s[1], MagDiv(x, s[1]))))

RECURSIVE SqrtSteps(_, _, _)
SqrtSteps(x, n, s) ==
  IF n = 1 THEN SqrtStep(x, s)
  ELSE Let(SqrtSteps(x, n \div 2, s), LAMBDA m :
         IF m[2] THEN m ELSE SqrtSteps(x, n - n \div 2, m))

\* The integer square root of a word n < 10^9, by Newton steps from r >= sqrt(n)
RECURSIVE WordSqrt(_, _)
WordSqrt(n, r) ==
  IF (r + n \div r) \div 2 >= r THEN r ELSE WordSqrt(n, (r + n \div r) \div 2)

\* The leading eight or nine digits of x * B, which are x * B without its last
\* d digits (d even)
Leading(x, d) ==
  IF d >= 8 THEN x[1] * Pow10(16 - d) + x[2] \div Pow10(d - 8)
  ELSE x[2] * Pow10(8 - d)

\* The even number of digits of x * B that Leading leaves out
Dropped(x) ==
  IF x[1] > 0 THEN 2 * ((Digits(x[1]) + 8) \div 2)
  ELSE 2 * (Digits(x[2]) \div 2)

\* A first estimate, at least the square root of the magnitude x and within
\* one part in three thousand of it.
SqrtStartFrom(r, d) == IF d = 16 THEN <<r, 0>> ELSE WordMul(r, Pow10(d \div 2))
SqrtStart(x) == SqrtStartFrom(WordSqrt(Leading(x, Dropped(x)), 31623) + 1, Dropped(x))

\* The square root of a magnitude x # 0, truncated to eight fractional digits.
MagSqrt(x) == SqrtSteps(x, 8, <<SqrtStart(x), FALSE>>)[1]

\* Math.sqrt(x)
Sqrt(x) ==
  IF x.k = "nan" THEN NaN
  ELSE IF IsZero(x) THEN Zero
  ELSE IF x.neg THEN NaN
  ELSE IF x.k = "inf" THEN Infinity
  ELSE OfMag(FALSE, MagSqrt(Mag(x)))

\* Math.pow(x, 1.5)
Pow15(x) ==
  IF x.k = "nan" THEN NaN
  ELSE IF IsZero(x) THEN Zero
  ELSE IF x.k = "inf" THEN Infinity
  ELSE IF x.neg THEN NaN
  ELSE FMul(x, Sqrt(x))

\* Math.PI, and 2 * Math.PI with its next eight digits
PI == P(3, 14159265)
TWO_PI == P(6, 28318530)
TwoPiNext == 71795864
HALF_PI == P(1, 57079632)
InvTwoPi == P(0, 15915494)

\* a * b for two words holding numbers below 20 in units of 1 / B
WordOf(m) == m[1] * B + m[2]
SmallMul(a, b) == WordOf(MagMul(<<a \div B, a % B>>, <<b \div B, b % B>>))

\* The Taylor series of the sine and of the cosine of r, 0 <= r <= 2, in
\* Horner form (r and the result are words in units of 1 / B): the steps
\* i .. i + n - 1 over the divisors ds, by halving, from the value h.
Horner(z, h, d) == B - (SmallMul(z, h) \div d)
RECURSIVE HornerSteps(_, _, _, _, _)
HornerSteps(z, ds, i, n, h) ==
  IF n = 1 THEN Horner(z, h, ds[i])
  ELSE Let(HornerSteps(z, ds, i, n \div 2, h), LAMBDA m :
         HornerSteps(z, ds, i + n \div 2, n - n \div 2, m))

SinDivisors == <<210, 156, 110, 72, 42, 20, 6>>
SinHorner(r, z) == SmallMul(r, HornerSteps(z, SinDivisors, 1, 7, B))
SinSeries(r) == SinHorner(r, SmallMul(r, r))

CosDivisors == <<240, 182, 132, 90, 56, 30, 12, 2>>
CosSeries(r) == HornerSteps(SmallMul(r, r), CosDivisors, 1, 8, B)

\* x - k * 2 * pi for the integer k nearest to x / (2 * pi): a finite number
\* in [-pi, pi] (up to the last digit).
Turns(k) == FAdd(FMul(FromInt(k), TWO_PI), P(0, WordMul(k, TwoPiNext)[1]))
WithinTurn(r) ==
  IF FGt(FAbs(r), PI) THEN (IF r.neg THEN FAdd(r, TWO_PI) ELSE FSub(r, TWO_PI)) ELSE r
LessTurns(x, turn) == WithinTurn(IF x.neg THEN FAdd(x, turn) ELSE FSub(x, turn))
ReduceAngle(x) == LessTurns(x, Turns(FAdd(FMul(FAbs(x), InvTwoPi), P(0, B \div 2)).hi))

\* Math.sin(x)
Fold(a) == IF FGt(a, HALF_PI) THEN FSub(PI, a) ELSE a
Word(f) == IF f.neg THEN 0 ELSE f.hi * B + f.lo
OfWord(n, v) == Fin(n, v \div B, v % B)
SinReduced(r) == OfWord(r.neg, SinSeries(Word(Fold(FAbs(r)))))
Sin(x) == IF x.k # "fin" THEN NaN ELSE SinReduced(ReduceAngle(x))

\* Math.cos(x)
CosReduced(a) == OfWord(FGt(a, HALF_PI), CosSeries(Word(Fold(a))))
Cos(x) == IF x.k # "fin" THEN NaN ELSE CosReduced(FAbs(ReduceAngle(x)))

(***************************************************************************)
(* Constants and configuration of the program                              *)
(***************************************************************************)

SATELLITE_DIST_FACTOR == P(50, 0)
DEG_TO_RAD == FDiv(PI, FromInt(180))

\* A property that the configuration leaves out (data.distanceFactor).
Undefined == [k |-> "undefined", neg |-> FALSE, hi |-> 0, lo |-> 0]

DEFAULTS ==
  [planetVisualScale |-> P(5, 0),
   universeScale |-> P(2, 0),
   orbitOpacity |-> P(0, 40000000),
   orbitColor |-> "#7afff0",
   uiOpacity |-> P(0, 10000000),
   meteorCount |-> 2000,
   meteorSize |-> P(3, 0),
   meteorSpeed |-> P(1, 0),
   blackHoleVisible |-> FALSE]

\* Entries of CELESTIAL_BODIES.
Sun ==
  [name |-> "Sun", radius |-> P(0, 05000000),
   elements |-> [a |-> Zero, e |-> Zero, i |-> Zero, L |-> Zero, w |-> Zero, o |-> Zero],
   rotPeriod |-> P(600, 0), isStar |-> TRUE, distanceFactor |-> Undefined,
   satellites |-> <<>>]

Moon ==
  [name |-> "Moon", radius |-> P(0, 00350000),
   elements |-> [a |-> P(0, 00257000), e |-> P(0, 05490000), i |-> P(5, 14500000),
                 L |-> P(218, 31617000), w |-> P(318, 15000000), o |-> P(125, 08000000)],
   rotPeriod |-> P(655, 70000000), isStar |-> FALSE, distanceFactor |-> P(50, 0),
   satellites |-> <<>>]

Earth ==
  [name |-> "Earth", radius |-> P(0, 01300000),
   elements |-> [a |-> P(1, 0), e |-> P(0, 01670800), i |-> P(0, 00005000),
                 L |-> P(100, 46435000), w |-> P(102, 94719000), o |-> Zero],
   rotPeriod |-> P(23, 90000000), isStar |-> FALSE, distanceFactor |-> Undefined,
   satellites |-> <<Moon>>]

Europa ==
  [name |-> "Europa", radius |-> P(0, 00350000),
   elements |-> [a |-> P(0, 00449000), e |-> P(0, 00900000), i |-> P(0, 47000000),
                 L |-> P(200, 39000000), w |-> P(44, 0), o |-> P(219, 10600000)],
   rotPeriod |-> P(85, 20000000), isStar |-> FALSE, distanceFactor |-> P(100, 0),
   satellites |-> <<>>]

Jupiter ==
  [name |-> "Jupiter", radius |-> P(0, 04000000),
   elements |-> [a |-> P(5, 20426700), e |-> P(0, 04849800), i |-> P(1, 30530000),
                 L |-> P(34, 40438000), w |-> P(14, 75385000), o |-> P(100, 55615000)],
   rotPeriod |-> P(9, 90000000), isStar |-> FALSE, distanceFactor |-> Undefined,
   satellites |-> <<Europa>>]

Venus ==
  [name |-> "Venus", radius |-> P(0, 01200000),
   elements |-> [a |-> P(0, 72333200), e |-> P(0, 00677300), i |-> P(3, 39471000),
                 L |-> P(181, 97973000), w |-> P(131, 53298000), o |-> P(76, 68069000)],
   rotPeriod |-> M(5832, 50000000), isStar |-> FALSE, distanceFactor |-> Undefined,
   satellites |-> <<>>]

(***************************************************************************)
(* Time conversion, Kepler solver and orbit frame transform                *)
(***************************************************************************)

\* date.getTime() / ms for a Date of t milliseconds, t = <<t \div B, t % B>>,
\* and ms a number of milliseconds below B.
TimeOver(t, ms) == OfMag(FALSE, MagDiv(t, <<0, ms>>))

\* getJulianDate(date), date = [time, timezoneOffset]
getJulianDate(date) ==
  FAdd(FSub(TimeOver(date.time, 86400000),
            FDiv(FromInt(date.timezoneOffset), FromInt(1440))),
       P(2440587, 50000000))

\* The loop condition with a single pass allowed, where iter < 100 is meant.
KeplerContinueOnce(s) == FGt(FAbs(s.delta), P(0, 100)) /\ s.iter < 1

\* The loop condition Math.abs(delta) > 1e-6 && iter < 100
KeplerContinue(s) == FGt(FAbs(s.delta), P(0, 100)) /\ s.iter < 100

\* One pass of the loop body
KeplerStep(e, Mrad, s) ==
  Let(Sin(s.E), LAMBDA sinE :
  Let(Cos(s.E), LAMBDA cosE :
  Let(FDiv(FSub(FSub(s.E, FMul(e, sinE)), Mrad), FSub(One, FMul(e, cosE))), LAMBDA delta :
    [E |-> FSub(s.E, delta), delta |-> delta, iter |-> s.iter + 1])))

\* At most n passes of the while loop from the state s
RECURSIVE KeplerLoop(_, _, _, _)
KeplerLoop(e, Mrad, n, s) ==
  IF ~KeplerContinue(s) THEN s
  ELSE IF n = 1 THEN KeplerStep(e, Mrad, s)
  ELSE Let(KeplerLoop(e, Mrad, n \div 2, s), LAMBDA m :
         KeplerLoop(e, Mrad, n - n \div 2, m))

\* The loop entered with delta = 0, where let delta = 1.0 is meant.
SolveKeplerFromZero(e, Mrad) ==
  KeplerLoop(e, Mrad, 100, [E |-> Mrad, delta |-> Zero, iter |-> 0])

\* The eccentric anomaly: lines 300-308 of getOrbitPosition
SolveKepler(e, Mrad) ==
  KeplerLoop(e, Mrad, 100, [E |-> Mrad, delta |-> One, iter |-> 0])

\* The coordinates in the orbital plane at the eccentric anomaly E
OrbitalPlane(a, e, E) ==
  [X_orb |-> FMul(a, FSub(Cos(E), e)),
   Y_orb |-> FMul(FMul(a, Sqrt(FSub(One, FMul(e, e)))), Sin(E))]

\* The cosines and sines of the node, the argument of perihelion and the
\* inclination
Angles(o_rad, w_rad, i_rad) ==
  [cos_o |-> Cos(o_rad), sin_o |-> Sin(o_rad),
   cos_w |-> Cos(w_rad), sin_w |-> Sin(w_rad),
   cos_i |-> Cos(i_rad), sin_i |-> Sin(i_rad)]

\* new THREE.Vector3(x_ecl, y_ecl, z_ecl), where z_ecl is meant to be the
\* second component.
EclipticUnmapped(p, t) ==
  <<FAdd(FMul(FSub(FMul(t.cos_o, t.cos_w), FMul(FMul(t.sin_o, t.sin_w), t.cos_i)), p.X_orb),
         FMul(FSub(FMul(FNeg(t.cos_o), t.sin_w), FMul(FMul(t.sin_o, t.cos_w), t.cos_i)), p.Y_orb)),
    FAdd(FMul(FAdd(FMul(t.sin_o, t.cos_w), FMul(FMul(t.cos_o, t.sin_w), t.cos_i)), p.X_orb),
         FMul(FAdd(FMul(FNeg(t.sin_o), t.sin_w), FMul(FMul(t.cos_o, t.cos_w), t.cos_i)), p.Y_orb)),
    FAdd(FMul(FMul(t.sin_w, t.sin_i), p.X_orb), FMul(FMul(t.cos_w, t.sin_i), p.Y_orb))>>

\* new THREE.Vector3(x_ecl, z_ecl, y_ecl) for the orbital-plane point p under
\* the angles t
Ecliptic(p, t) ==
  <<FAdd(FMul(FSub(FMul(t.cos_o, t.cos_w), FMul(FMul(t.sin_o, t.sin_w), t.cos_i)), p.X_orb),
         FMul(FSub(FMul(FNeg(t.cos_o), t.sin_w), FMul(FMul(t.sin_o, t.cos_w), t.cos_i)), p.Y_orb)),
    FAdd(FMul(FMul(t.sin_w, t.sin_i), p.X_orb), FMul(FMul(t.cos_w, t.sin_i), p.Y_orb)),
    FAdd(FMul(FAdd(FMul(t.sin_o, t.cos_w), FMul(FMul(t.cos_o, t.sin_w), t.cos_i)), p.X_orb),
         FMul(FAdd(FMul(FNeg(t.sin_o), t.sin_w), FMul(FMul(t.cos_o, t.cos_w), t.cos_i)), p.Y_orb))>>

\* getOrbitPosition(elements, M_degrees), a THREE.Vector3 <<x, y, z>>
getOrbitPosition(elements, M_degrees) ==
  Let(SolveKepler(elements.e, FMul(M_degrees, DEG_TO_RAD)).E, LAMBDA E :
  Let(OrbitalPlane(elements.a, elements.e, E), LAMBDA p :
  Let(Angles(FMul(elements.o, DEG_TO_RAD),
             FMul(FSub(elements.w, elements.o), DEG_TO_RAD),
             FMul(elements.i, DEG_TO_RAD)), LAMBDA t :
  Ecliptic(p, t))))

\* n without the power, where 0.9856076686 / a^1.5 is meant.
MeanMotionLinear(elements) == FDiv(P(0, 98560766), elements.a)

\* const n = 0.9856076686 / Math.pow(elements.a, 1.5), in degrees a day
MeanMotion(elements) == FDiv(P(0, 98560766), Pow15(elements.a))

\* The mean longitude returned, where currentL - elements.w is meant.
getMeanLongitude(elements, jd) ==
  Let(MeanMotion(elements), LAMBDA n :
  Let(FSub(jd, P(2451545, 0)), LAMBDA daysSinceJ2000 :
  FAdd(elements.L, FMul(n, daysSinceJ2000))))

\* getMeanAnomaly(elements, jd)
getMeanAnomaly(elements, jd) ==
  Let(MeanMotion(elements), LAMBDA n :
  Let(FSub(jd, P(2451545, 0)), LAMBDA daysSinceJ2000 :
  Let(FAdd(elements.L, FMul(n, daysSinceJ2000)), LAMBDA currentL :
  FSub(currentL, elements.w))))

(***************************************************************************)
(* The scene graph.  A mesh is identified by the path of indices that      *)
(* leads to its body in the table (<<3>>, <<3, 1>>, ...); the scene itself *)
(* is the empty path and is the only parent that is not a mesh.  A scene   *)
(* is a record [meshes, lines, written]: meshes maps a mesh to its parent, *)
(* position, rotation.y and scale; lines maps the mesh of a body that has  *)
(* an orbit line to the scale of that line; written lists the meshes whose *)
(* pose the last updatePhysics has set, in the order in which it set them. *)
(***************************************************************************)

SceneRoot == <<>>
Null == "null"
EmptyScene == [meshes |-> <<>>, lines |-> <<>>, written |-> <<>>]
Vec(x, y, z) == <<x, y, z>>

\* THREE.Vector3.multiplyScalar and THREE.Vector3.divide
multiplyScalar(v, s) == Vec(FMul(v[1], s), FMul(v[2], s), FMul(v[3], s))
divide(v, w) == Vec(FDiv(v[1], w[1]), FDiv(v[2], w[2]), FDiv(v[3], w[3]))

\* x || d on numbers: undefined, 0 and NaN are falsy
OrElse(x, d) == IF x.k = "undefined" \/ IsNaN(x) \/ IsZero(x) THEN d ELSE x

\* new THREE.Mesh(geo, mat) with mesh.scale.set(radius, radius, radius),
\* added to parentObject
NewMesh(data, parentObject) ==
  [parent |-> parentObject,
   position |-> Vec(Zero, Zero, Zero),
   rotationY |-> Zero,
   scale |-> Vec(data.radius, data.radius, data.radius)]

RECURSIVE createCelestialBody(_, _, _, _)
RECURSIVE createSatellites(_, _, _, _)

\* The scene after scene.add(mesh) or parentObject.add(mesh), and after
\* parentObject.add(orbitLine) where data.elements.a > 0
WithMesh(data, parentObject, path, scene) ==
  [meshes |-> (path :> NewMesh(data, parentObject)) @@ scene.meshes,
   lines |-> IF FGt(data.elements.a, Zero)
             THEN (path :> Vec(One, One, One)) @@ scene.lines
             ELSE scene.lines,
   written |-> scene.written]

\* const bodyObject = { mesh, data, orbitLine, satellites }
BodyObject(data, path, sats) ==
  [bodyObject |-> [mesh |-> path, data |-> data,
                   orbitLine |-> IF FGt(data.elements.a, Zero) THEN path ELSE Null,
                   satellites |-> sats.satellites],
   scene |-> sats.scene]

\* createCelestialBody(data, parentObject): the new mesh is named path; the
\* result is the bodyObject and the scene with the new objects in it.
createCelestialBody(data, parentObject, path, scene) ==
  BodyObject(data, path,
             createSatellites(data.satellites, path, 1,
                              [satellites |-> <<>>,
                               scene |-> WithMesh(data, parentObject, path, scene)]))

\* bodyObject.satellites.push(satObj)
PushSatellite(acc, satObj) ==
  [satellites |-> Append(acc.satellites, satObj.bodyObject), scene |-> satObj.scene]

\* data.satellites.forEach(...) inside createCelestialBody, from index k
createSatellites(satellites, mesh, k, acc) ==
  IF k > Len(satellites) THEN acc
  ELSE createSatellites(satellites, mesh, k + 1,
         PushSatellite(acc, createCelestialBody(satellites[k], mesh, Append(mesh, k), acc.scene)))

\* STATE.activeBodies.push(bodyObj)
PushBody(acc, bodyObj) ==
  [activeBodies |-> Append(acc.activeBodies, bodyObj.bodyObject), scene |-> bodyObj.scene]

\* createSolarSystem(scene) over the table, from index k; acc holds
\* STATE.activeBodies and the scene.
RECURSIVE createSolarSystem(_, _, _)
createSolarSystem(table, k, acc) ==
  IF k > Len(table) THEN acc
  ELSE createSolarSystem(table, k + 1,
         PushBody(acc, createCelestialBody(table[k], SceneRoot, <<k>>, acc.scene)))

(***************************************************************************)
(* The per-tick pose update                                                *)
(***************************************************************************)

\* The mesh's own scale, where mesh.parent.scale is meant.
ownScale(mesh, meshes) == meshes[mesh].scale

\* mesh.parent.scale
parentScaleOf(mesh, meshes) == meshes[meshes[mesh].parent].scale

\* mesh.parent && mesh.parent.isMesh
isSatelliteIn(mesh, meshes) == meshes[mesh].parent # SceneRoot

\* v.set(s, s, s)
Uniform(s) == Vec(s, s, s)

\* pos without pos.divide(mesh.parent.scale), where the position of a
\* satellite in the frame of its scaled parent is meant.
withoutParentScale(mesh, data, orbitPosition, S, meshes) ==
  IF isSatelliteIn(mesh, meshes)
  THEN multiplyScalar(multiplyScalar(orbitPosition, S.universeScale),
                      OrElse(data.distanceFactor, SATELLITE_DIST_FACTOR))
  ELSE multiplyScalar(orbitPosition, S.universeScale)

\* pos after pos.multiplyScalar(SETTINGS.universeScale) and, for a satellite,
\* pos.multiplyScalar(data.distanceFactor || SATELLITE_DIST_FACTOR) and
\* pos.divide(mesh.parent.scale)
ScaledPosition(mesh, data, orbitPosition, S, meshes) ==
  IF isSatelliteIn(mesh, meshes)
  THEN divide(multiplyScalar(multiplyScalar(orbitPosition, S.universeScale),
                             OrElse(data.distanceFactor, SATELLITE_DIST_FACTOR)),
              parentScaleOf(mesh, meshes))
  ELSE multiplyScalar(orbitPosition, S.universeScale)

\* mesh.position after the if (!data.isStar) block
PositionOf(mesh, data, jd, S, meshes) ==
  IF data.isStar THEN meshes[mesh].position
  ELSE Let(getMeanAnomaly(data.elements, jd), LAMBDA currentM :
       Let(getOrbitPosition(data.elements, currentM), LAMBDA pos :
         ScaledPosition(mesh, data, pos, S, meshes)))

\* rotationAngle from the length of the rotation period, where its sign is
\* meant to give the direction.
RotationOfLength(data, hoursPassed) ==
  FMul(FDiv(hoursPassed, FAbs(data.rotPeriod)), TWO_PI)

\* rotationAngle
RotationOf(data, hoursPassed) == FMul(FDiv(hoursPassed, data.rotPeriod), TWO_PI)

\* globalScale, where the scale of a satellite relative to its parent is meant.
globalScaleOf(mesh, data, S, meshes) == FMul(data.radius, S.planetVisualScale)

\* What mesh.scale is set to: relativeScale for a satellite, globalScale
\* otherwise
ScaleOf(mesh, data, S, meshes) ==
  IF isSatelliteIn(mesh, meshes)
  THEN FDiv(FMul(data.radius, S.planetVisualScale), parentScaleOf(mesh, meshes)[1])
  ELSE FMul(data.radius, S.planetVisualScale)

\* What orbitLine.scale is set to: relativeOrbitScale for a satellite,
\* SETTINGS.universeScale otherwise
LineScaleOf(mesh, data, S, meshes) ==
  IF isSatelliteIn(mesh, meshes)
  THEN FDiv(FMul(S.universeScale, OrElse(data.distanceFactor, SATELLITE_DIST_FACTOR)),
            parentScaleOf(mesh, meshes)[1])
  ELSE S.universeScale

\* The scene after the body's own mesh, at the position given, and its orbit
\* line are updated
UpdatedBody(bodyObj, position, hoursPassed, S, scene) ==
  [meshes |-> [scene.meshes EXCEPT ![bodyObj.mesh] =
                 [parent |-> @.parent,
                  position |-> position,
                  rotationY |-> RotationOf(bodyObj.data, hoursPassed),
                  scale |-> Uniform(ScaleOf(bodyObj.mesh, bodyObj.data, S, scene.meshes))]],
   lines |-> IF bodyObj.orbitLine # Null
             THEN [scene.lines EXCEPT ![bodyObj.orbitLine] =
                     Uniform(LineScaleOf(bodyObj.mesh, bodyObj.data, S, scene.meshes))]
             ELSE scene.lines,
   written |-> Append(scene.written, bodyObj.mesh)]

RECURSIVE updateBodyPhysics(_, _, _, _, _)
RECURSIVE updateSatellites(_, _, _, _, _, _)

\* updateBodyPhysics with the satellites updated before the body itself,
\* where the body is meant to be posed before its satellites are.
updateBodyPhysicsSatellitesFirst(bodyObj, jd, hoursPassed, S, scene) ==
  Let(updateSatellites(bodyObj.satellites, 1, jd, hoursPassed, S, scene), LAMBDA updated :
    UpdatedBody(bodyObj, PositionOf(bodyObj.mesh, bodyObj.data, jd, S, updated.meshes),
                hoursPassed, S, updated))

\* updateBodyPhysics(bodyObj, jd, hoursPassed) under the settings S; the
\* result is the scene after the body and its satellites are updated.
updateBodyPhysics(bodyObj, jd, hoursPassed, S, scene) ==
  Let(UpdatedBody(bodyObj, PositionOf(bodyObj.mesh, bodyObj.data, jd, S, scene.meshes),
                  hoursPassed, S, scene), LAMBDA updated :
    updateSatellites(bodyObj.satellites, 1, jd, hoursPassed, S, updated))

\* The forEach with the input handler of the planet-scale slider run between
\* one body and the next, where a pass is meant to run with no handler in it.
updateSatellitesInterleaved(satellites, k, jd, hoursPassed, S, scene) ==
  IF k > Len(satellites) THEN scene
  ELSE Let(updateBodyPhysics(satellites[k], jd, hoursPassed, S, scene), LAMBDA updated :
         updateSatellites(satellites, k + 1, jd, hoursPassed,
                          [S EXCEPT !.planetVisualScale = FAdd(@, One)], updated))

\* bodies.forEach((body) => updateBodyPhysics(body, jd, hoursPassed)), from
\* index k
updateSatellites(satellites, k, jd, hoursPassed, S, scene) ==
  IF k > Len(satellites) THEN scene
  ELSE Let(updateBodyPhysics(satellites[k], jd, hoursPassed, S, scene), LAMBDA updated :
         updateSatellites(satellites, k + 1, jd, hoursPassed, S, updated))

\* updatePhysics() for the date and settings given
updatePhysics(date, activeBodies, S, scene) ==
  Let(getJulianDate(date), LAMBDA jd :
  Let(TimeOver(date.time, 3600000), LAMBDA hoursPassed :
    updateSatellites(activeBodies, 1, jd, hoursPassed, S,
                     [scene EXCEPT !.written = <<>>])))

(***************************************************************************)
(* The running program.  Left out of the state: the camera and its         *)
(* controls, the materials and textures, the meteoroids, the sun effects,  *)
(* the black hole and the DOM, none of which is read by the pose update.   *)
(***************************************************************************)

VARIABLES
  CELESTIAL_BODIES,   \* the body table
  timezoneOffset,     \* what Date.prototype.getTimezoneOffset returns here
  SETTINGS,
  speedMultiplier,    \* STATE.speedMultiplier
  simulationDate,     \* STATE.simulationDate
  activeBodies,       \* STATE.activeBodies
  focusedBody,        \* STATE.focusedBody
  scene,              \* STATE.scene: the meshes and the orbit lines
  frame,              \* the last call of animate: its number, the elapsed
                      \* time read from the clock, the date and speed it
                      \* found, the date it set, the settings it ran under
                      \* and the poses it read once updatePhysics had returned
  steps,              \* the number of handlers run so far
  call                \* a call of one of the pure functions on its own: the
                      \* function, its arguments and, once it has returned,
                      \* its result

vars == <<CELESTIAL_BODIES, timezoneOffset, SETTINGS, speedMultiplier,
          simulationDate, activeBodies, focusedBody, scene, frame, steps, call>>

\* The handlers run in one execution (frames and user events together).
MaxSteps == 3

\* The part of CELESTIAL_BODIES that is modelled.
BodyTable == <<Sun, Earth>>

\* Instants read from the wall clock by new Date(): 2026-11-01T09:33:20Z.
WallClock == {<<17934, 03200000>>}
\* Time-zone offsets of the environment, in minutes (UTC+1).
TimezoneOffsets == {-60}
\* Seconds returned by STATE.clock.getDelta(): 16 ms and a 60 Hz frame.
Deltas == {P(0, 01600000), P(0, 01666667)}
\* data-speed of the speed buttons
Speeds == {-86400, 0, 1, 86400}
\* Values of the planet-scale and universe-scale sliders
PlanetScales == {P(5, 0), P(10, 0)}
UniverseScales == {P(2, 0), P(3, 0)}
\* Meshes hit by the ray of a click: the first two of the table
Clicked == {<<1>>, <<2>>}

\* new Date(time) in this environment
NewDate(time) == [time |-> time, timezoneOffset |-> timezoneOffset]

\* new Date(date.getTime() + timeStep): the time value is the sum with its
\* fraction dropped (TimeClip), an invalid date when the sum is not finite.
DatePlus(date, timeStep) ==
  IF ~IsFinite(timeStep) THEN [date EXCEPT !.time = Null]
  ELSE IF ~timeStep.neg THEN [date EXCEPT !.time = MagAdd(@, <<0, timeStep.hi>>)]
  ELSE [date EXCEPT !.time = MagSub(@, <<0, timeStep.hi + IF timeStep.lo > 0 THEN 1 ELSE 0>>)]

NoFrame ==
  [ticks |-> 0, delta |-> Zero, speed |-> 1, previous |-> Null, date |-> Null,
   settings |-> Null, seen |-> Null]

\* The state once init() has run on the table: createSolarSystem has filled
\* STATE.activeBodies and the scene.
Loaded(table) ==
  createSolarSystem(table, 1, [activeBodies |-> <<>>, scene |-> EmptyScene])

NoCall == [fn |-> "none", args |-> <<>>, returned |-> FALSE, result |-> Null]

\* The state once init() has run on one of the tables
Started(tables) ==
  /\ CELESTIAL_BODIES \in tables
  /\ timezoneOffset \in TimezoneOffsets
  /\ SETTINGS = DEFAULTS
  /\ speedMultiplier = 1
  /\ \E now \in WallClock : simulationDate = NewDate(now)
  /\ activeBodies = Loaded(CELESTIAL_BODIES).activeBodies
  /\ scene = Loaded(CELESTIAL_BODIES).scene
  /\ focusedBody = Null
  /\ frame = NoFrame
  /\ steps = 0

InitWith(tables) == Started(tables) /\ call = NoCall

Init == InitWith({BodyTable})

\* Tables that CELESTIAL_BODIES could be edited into, each with one entry that
\* the program's table does not have: a body with a = 0 that is not a star, a
\* rotation period of zero, an eccentricity below 0 or not below 1, and a
\* negative semi-major axis.
Barycenter == [Sun EXCEPT !.name = "Barycenter", !.isStar = FALSE]
Stopped == [Venus EXCEPT !.name = "Stopped", !.rotPeriod = Zero]
Hyperbolic == [Venus EXCEPT !.name = "Hyperbolic", !.elements.e = P(1, 20000000)]
Backward == [Venus EXCEPT !.name = "Backward", !.elements.e = M(0, 10000000)]
Inward == [Venus EXCEPT !.name = "Inward", !.elements.a = M(0, 72333200)]
EditedTables ==
  {<<Sun, Barycenter>>, <<Sun, Stopped>>, <<Sun, Hyperbolic>>, <<Sun, Backward>>,
   <<Sun, Inward>>}

InitEdited == InitWith(EditedTables)

\* const timeStep = delta * STATE.speedMultiplier * 1000
timeStepOf(delta, speed) == FMul(FMul(delta, FromInt(speed)), FromInt(1000))

\* The mesh and the meshes above it, whose matrices getWorldPosition reads;
\* none when no mesh is focused
Lineage(mesh) == IF mesh = Null THEN {} ELSE {SubSeq(mesh, 1, k) : k \in 1..Len(mesh)}

\* The poses read from the scene sc by the rest of animate: by
\* STATE.focusedBody.getWorldPosition when a body is focused, by
\* p.mesh.getWorldPosition in updateUI when it is due, and by
\* STATE.renderer.render
Seen(sc, focused, bodies) ==
  [tracked |-> [mesh \in Lineage(focused) |-> sc.meshes[mesh]],
   listed |-> [k \in DOMAIN bodies |-> sc.meshes[bodies[k].mesh].position],
   rendered |-> [meshes |-> sc.meshes, lines |-> sc.lines]]

\* animate() with the poses read before updatePhysics is called, where they
\* are meant to be read after it.
animateReadingFirst(delta) ==
  /\ steps < MaxSteps
  /\ steps' = steps + 1
  /\ simulationDate' = DatePlus(simulationDate, timeStepOf(delta, speedMultiplier))
  /\ scene' = updatePhysics(simulationDate', activeBodies, SETTINGS, scene)
  /\ frame' = [ticks |-> frame.ticks + 1, delta |-> delta,
               speed |-> speedMultiplier, previous |-> simulationDate,
               date |-> simulationDate', settings |-> SETTINGS,
               seen |-> Seen(scene, focusedBody, activeBodies)]
  /\ UNCHANGED <<call, CELESTIAL_BODIES, timezoneOffset, SETTINGS, speedMultiplier,
                 activeBodies, focusedBody>>

\* animate(), with delta the value of STATE.clock.getDelta()
animate(delta) ==
  /\ steps < MaxSteps
  /\ steps' = steps + 1
  /\ simulationDate' = DatePlus(simulationDate, timeStepOf(delta, speedMultiplier))
  /\ scene' = updatePhysics(simulationDate', activeBodies, SETTINGS, scene)
  /\ frame' = [ticks |-> frame.ticks + 1, delta |-> delta,
               speed |-> speedMultiplier, previous |-> simulationDate,
               date |-> simulationDate', settings |-> SETTINGS,
               seen |-> Seen(scene', focusedBody, activeBodies)]
  /\ UNCHANGED <<call, CELESTIAL_BODIES, timezoneOffset, SETTINGS, speedMultiplier,
                 activeBodies, focusedBody>>

\* The click handler of a speed button
clickSpeed(val) ==
  /\ steps < MaxSteps
  /\ steps' = steps + 1
  /\ speedMultiplier' = val
  /\ UNCHANGED <<call, CELESTIAL_BODIES, timezoneOffset, SETTINGS, simulationDate,
                 activeBodies, focusedBody, scene, frame>>

\* The input handlers of the planet-scale and universe-scale sliders
inputPlanetScale(value) ==
  /\ steps < MaxSteps
  /\ steps' = steps + 1
  /\ SETTINGS' = [SETTINGS EXCEPT !.planetVisualScale = value]
  /\ UNCHANGED <<call, CELESTIAL_BODIES, timezoneOffset, speedMultiplier, simulationDate,
                 activeBodies, focusedBody, scene, frame>>

inputUniverseScale(value) ==
  /\ steps < MaxSteps
  /\ steps' = steps + 1
  /\ SETTINGS' = [SETTINGS EXCEPT !.universeScale = value]
  /\ UNCHANGED <<call, CELESTIAL_BODIES, timezoneOffset, speedMultiplier, simulationDate,
                 activeBodies, focusedBody, scene, frame>>

\* The change handler of the black-hole checkbox, with checked the state of
\* the box
changeBlackHole(checked) ==
  /\ steps < MaxSteps
  /\ steps' = steps + 1
  /\ SETTINGS' = [SETTINGS EXCEPT !.blackHoleVisible = checked]
  /\ UNCHANGED <<call, CELESTIAL_BODIES, timezoneOffset, speedMultiplier, simulationDate,
                 activeBodies, focusedBody, scene, frame>>

\* The input handlers of the orbit-opacity slider, the orbit-colour picker and
\* the interface-opacity slider
inputOrbitOpacity(value) ==
  /\ steps < MaxSteps
  /\ steps' = steps + 1
  /\ SETTINGS' = [SETTINGS EXCEPT !.orbitOpacity = value]
  /\ UNCHANGED <<call, CELESTIAL_BODIES, timezoneOffset, speedMultiplier, simulationDate,
                 activeBodies, focusedBody, scene, frame>>

inputOrbitColor(value) ==
  /\ steps < MaxSteps
  /\ steps' = steps + 1
  /\ SETTINGS' = [SETTINGS EXCEPT !.orbitColor = value]
  /\ UNCHANGED <<call, CELESTIAL_BODIES, timezoneOffset, speedMultiplier, simulationDate,
                 activeBodies, focusedBody, scene, frame>>

inputUiOpacity(val) ==
  /\ steps < MaxSteps
  /\ steps' = steps + 1
  /\ SETTINGS' = [SETTINGS EXCEPT !.uiOpacity = val]
  /\ UNCHANGED <<call, CELESTIAL_BODIES, timezoneOffset, speedMultiplier, simulationDate,
                 activeBodies, focusedBody, scene, frame>>

\* The handlers of the meteor count, size and speed inputs; the count is the
\* integer parseInt reads
changeMeteorCount(value) ==
  /\ steps < MaxSteps
  /\ steps' = steps + 1
  /\ SETTINGS' = [SETTINGS EXCEPT !.meteorCount = value]
  /\ UNCHANGED <<call, CELESTIAL_BODIES, timezoneOffset, speedMultiplier, simulationDate,
                 activeBodies, focusedBody, scene, frame>>

inputMeteorSize(value) ==
  /\ steps < MaxSteps
  /\ steps' = steps + 1
  /\ SETTINGS' = [SETTINGS EXCEPT !.meteorSize = value]
  /\ UNCHANGED <<call, CELESTIAL_BODIES, timezoneOffset, speedMultiplier, simulationDate,
                 activeBodies, focusedBody, scene, frame>>

inputMeteorSpeed(value) ==
  /\ steps < MaxSteps
  /\ steps' = steps + 1
  /\ SETTINGS' = [SETTINGS EXCEPT !.meteorSpeed = value]
  /\ UNCHANGED <<call, CELESTIAL_BODIES, timezoneOffset, speedMultiplier, simulationDate,
                 activeBodies, focusedBody, scene, frame>>

\* onCanvasClick(event) when the ray hits the mesh
onCanvasClick(mesh) ==
  /\ steps < MaxSteps
  /\ steps' = steps + 1
  /\ focusedBody' = mesh
  /\ UNCHANGED <<call, CELESTIAL_BODIES, timezoneOffset, SETTINGS, speedMultiplier,
                 simulationDate, activeBodies, scene, frame>>

\* resetVisuals() with createSolarSystem(STATE.scene) run again in it, where
\* the bodies of the scene are meant to be kept.
resetVisualsRebuilding ==
  /\ steps < MaxSteps
  /\ steps' = steps + 1
  /\ SETTINGS' = DEFAULTS
  /\ focusedBody' = Null
  /\ activeBodies' = createSolarSystem(CELESTIAL_BODIES, 1,
                        [activeBodies |-> activeBodies, scene |-> scene]).activeBodies
  /\ UNCHANGED <<call, CELESTIAL_BODIES, timezoneOffset, speedMultiplier, simulationDate,
                 scene, frame>>

resetVisuals ==
  /\ steps < MaxSteps
  /\ steps' = steps + 1
  /\ SETTINGS' = DEFAULTS
  /\ focusedBody' = Null
  /\ UNCHANGED <<call, CELESTIAL_BODIES, timezoneOffset, speedMultiplier, simulationDate,
                 activeBodies, scene, frame>>

\* resetTime() clearing the focus as well, which is resetVisuals' to clear.
resetTimeClearingFocus ==
  /\ steps < MaxSteps
  /\ steps' = steps + 1
  /\ \E now \in WallClock : simulationDate' = NewDate(now)
  /\ speedMultiplier' = 1
  /\ focusedBody' = Null
  /\ UNCHANGED <<call, CELESTIAL_BODIES, timezoneOffset, SETTINGS, activeBodies,
                 scene, frame>>

resetTime ==
  /\ steps < MaxSteps
  /\ steps' = steps + 1
  /\ \E now \in WallClock : simulationDate' = NewDate(now)
  /\ speedMultiplier' = 1
  /\ UNCHANGED <<call, CELESTIAL_BODIES, timezoneOffset, SETTINGS, activeBodies,
                 focusedBody, scene, frame>>

Next ==
  \/ \E delta \in Deltas : animate(delta)
  \/ \E val \in Speeds : clickSpeed(val)
  \/ \E value \in PlanetScales : inputPlanetScale(value)
  \/ \E value \in UniverseScales : inputUniverseScale(value)
  \/ \E mesh \in Clicked : onCanvasClick(mesh)
  \/ resetVisuals
  \/ resetTime

Spec == Init /\ [][Next]_vars

\* The program run on an edited table.
SpecEdited == InitEdited /\ [][Next]_vars

\* Tables whose satellite is configured otherwise than the Moon of the table
\* as shipped: one without distanceFactor, and one under a larger parent with
\* distanceFactor 100.
PlainMoon == [Moon EXCEPT !.distanceFactor = Undefined]
MoonTables == {<<Sun, [Earth EXCEPT !.satellites = <<PlainMoon>>]>>, <<Sun, Jupiter>>}
InitMoons == InitWith(MoonTables)

\* The program run on each of these tables.
SpecMoons == InitMoons /\ [][Next]_vars

\* A table with a satellite of a satellite and a second satellite after it.
Orbiter == [Europa EXCEPT !.name = "Orbiter", !.radius = P(0, 00100000)]
NestedTables ==
  {<<Sun, [Earth EXCEPT !.satellites = <<[Moon EXCEPT !.satellites = <<Orbiter>>],
                                         Europa>>]>>}
InitNested == InitWith(NestedTables)

\* The program run on this table.
SpecNested == InitNested /\ [][Next]_vars

\* A table with two bodies whose rotation periods differ in sign only, one of
\* them with a satellite.
Prograde == [Venus EXCEPT !.name = "Prograde", !.rotPeriod = FNeg(@)]
SpinTables == {<<Sun, [Venus EXCEPT !.satellites = <<Moon>>], Prograde>>}
InitSpin == InitWith(SpinTables)

\* The program run on this table.
SpecSpin == InitSpin /\ [][Next]_vars

\* Tables that keep the rules of configuration (rotPeriod other than 0,
\* 0 <= e < 1, a > 0 for a body that orbits): Jupiter with its satellite, and
\* a body of radius 0 that marks the centre its satellite goes round.
Hollow == [Earth EXCEPT !.name = "Hollow", !.radius = Zero]
RuledTables == {<<Sun, Jupiter>>, <<Sun, Hollow>>}
InitRuled == InitWith(RuledTables)

\* The program run on each of these tables.
SpecRuled == InitRuled /\ [][Next]_vars

\* The program with every control of the settings panel in use: the handlers
\* of Next and those of the seven other inputs, each given a value other than
\* its default (the checkbox both of its states).
NextPanel ==
  \/ Next
  \/ \E checked \in BOOLEAN : changeBlackHole(checked)
  \/ \E value \in {P(0, 80000000)} : inputOrbitOpacity(value)
  \/ \E value \in {"#ff8800"} : inputOrbitColor(value)
  \/ \E val \in {P(0, 50000000)} : inputUiOpacity(val)
  \/ \E value \in {500} : changeMeteorCount(value)
  \/ \E value \in {P(6, 0)} : inputMeteorSize(value)
  \/ \E value \in {P(2, 50000000)} : inputMeteorSpeed(value)

SpecPanel == Init /\ [][NextPanel]_vars

(***************************************************************************)
(* The pure functions on their own.  Each is called once on arguments drawn *)
(* from the sets below; the program itself stands still.                    *)
(***************************************************************************)

\* The eccentricities 0 .. 0.9 and the mean anomalies of [0, 2 pi) are taken
\* in this many equal steps.
EccentricitySteps == 9
AnomalySteps == 24

Eccentricities ==
  {FDiv(FMul(P(0, 90000000), FromInt(k)), FromInt(EccentricitySteps)) : k \in 0..EccentricitySteps}
Anomalies ==
  {FDiv(FMul(TWO_PI, FromInt(k)), FromInt(AnomalySteps)) : k \in 0..(AnomalySteps - 1)}

\* Instants (1970-01-01, 2000-01-01T12:00Z, 2026-11-01T09:33:20Z) and the
\* time-zone offsets, in minutes, of environments that read them
Instants == {<<0, 0>>, <<9467, 28000000>>, <<17934, 03200000>>}
Offsets == {-600, -60, 0, 300}

\* Orbits of the table and Julian Dates
Orbits == {body.elements : body \in {Venus, Earth, Moon, Jupiter, Europa}}
JulianDates == {P(2440587, 50000000), P(2451545, 0), P(2461345, 89814814)}

\* One orbital period of the orbit, 360 / n days with n = 0.9856076686 / a^1.5
OrbitalPeriod(elements) ==
  FDiv(P(360, 0), FDiv(P(0, 98560766), Pow15(elements.a)))

\* The orbit of the Earth with its eccentricity to four places
FixtureOrbit == [Earth.elements EXCEPT !.e = P(0, 01670000)]

\* Orbits in the reference plane, of several sizes, shapes and orientations
FlatOrbits ==
  {[FixtureOrbit EXCEPT !.i = Zero],
   [Venus.elements EXCEPT !.i = Zero],
   [Jupiter.elements EXCEPT !.i = Zero],
   [Europa.elements EXCEPT !.i = Zero, !.e = P(0, 90000000)]}

\* Elements that are no ellipse: e = -0.1, 1, 1.5 and 5
OpenOrbits ==
  {[FixtureOrbit EXCEPT !.e = e] : e \in {M(0, 10000000), One, P(1, 50000000), P(5, 0)}}

\* Mean anomalies in degrees, among them 0.5, 1 and 5 radians
MeanAnomalies ==
  {M(2, 48284000), Zero, P(28, 64788976), P(57, 29577951), P(90, 0), P(180, 0),
   P(286, 47889757), P(359, 90000000)}

Calls ==
  {[fn |-> "getOrbitPosition", args |-> [e |-> e, M |-> Mrad], returned |-> FALSE,
    result |-> Null] : e \in Eccentricities, Mrad \in Anomalies}
  \cup
  {[fn |-> "orbitPosition", args |-> [elements |-> el, M_degrees |-> M_degrees],
    returned |-> FALSE, result |-> Null] :
      el \in Orbits \cup FlatOrbits \cup OpenOrbits, M_degrees \in MeanAnomalies}
  \cup
  {[fn |-> "positionAt", args |-> [elements |-> el, jd |-> jd], returned |-> FALSE,
    result |-> Null] : el \in {FixtureOrbit} \cup Orbits, jd \in JulianDates}
  \cup
  {[fn |-> "getJulianDate", args |-> [time |-> t, timezoneOffset |-> o],
    returned |-> FALSE, result |-> Null] : t \in Instants, o \in Offsets}
  \cup
  {[fn |-> "getMeanAnomaly", args |-> [elements |-> el, jd |-> jd], returned |-> FALSE,
    result |-> Null] : el \in Orbits, jd \in JulianDates}

InitCalls == Started({BodyTable}) /\ call \in Calls

program ==
  <<CELESTIAL_BODIES, timezoneOffset, SETTINGS, speedMultiplier, simulationDate,
    activeBodies, focusedBody, scene, frame, steps>>

\* The Newton loop of getOrbitPosition, from E = M: the result is E, the last
\* correction and the number of passes.
callSolveKepler ==
  /\ call.fn = "getOrbitPosition" /\ ~call.returned
  /\ call' = [call EXCEPT !.returned = TRUE,
                          !.result = SolveKepler(call.args.e, call.args.M)]
  /\ UNCHANGED program

callGetJulianDate ==
  /\ call.fn = "getJulianDate" /\ ~call.returned
  /\ call' = [call EXCEPT !.returned = TRUE, !.result = getJulianDate(call.args)]
  /\ UNCHANGED program

\* getMeanAnomaly at jd and one orbital period later
callGetMeanAnomaly ==
  /\ call.fn = "getMeanAnomaly" /\ ~call.returned
  /\ call' = [call EXCEPT
               !.returned = TRUE,
               !.result = [start |-> getMeanAnomaly(call.args.elements, call.args.jd),
                           later |-> getMeanAnomaly(call.args.elements,
                                       FAdd(call.args.jd, OrbitalPeriod(call.args.elements)))]]
  /\ UNCHANGED program

\* getOrbitPosition(elements, M_degrees): the result is the vector returned
\* and, of the loop, the last E, the last correction and the number of passes.
callGetOrbitPosition ==
  /\ call.fn = "orbitPosition" /\ ~call.returned
  /\ call' = [call EXCEPT
               !.returned = TRUE,
               !.result = [loop |-> SolveKepler(call.args.elements.e,
                                               FMul(call.args.M_degrees, DEG_TO_RAD)),
                           position |-> getOrbitPosition(call.args.elements,
                                                         call.args.M_degrees)]]
  /\ UNCHANGED program

\* const currentM = getMeanAnomaly(data.elements, jd);
\* const pos = getOrbitPosition(data.elements, currentM)
PositionAt(elements, jd) ==
  Let(getMeanAnomaly(elements, jd), LAMBDA currentM :
    [currentM |-> currentM, pos |-> getOrbitPosition(elements, currentM)])

callPositionAt ==
  /\ call.fn = "positionAt" /\ ~call.returned
  /\ call' = [call EXCEPT !.returned = TRUE,
                          !.result = PositionAt(call.args.elements, call.args.jd)]
  /\ UNCHANGED program

NextCalls ==
  \/ callSolveKepler
  \/ callGetJulianDate
  \/ callGetMeanAnomaly
  \/ callGetOrbitPosition
  \/ callPositionAt

SpecCalls == InitCalls /\ [][NextCalls]_vars

(***************************************************************************)
(* Properties                                                              *)
(***************************************************************************)

\* The scene as createSolarSystem built it, before any frame.
FreshScene == Loaded(CELESTIAL_BODIES).scene

\* C1: the pose of every body is a function of the inputs of the last frame
\* alone.  Whatever frames, speed changes, setting changes and resets came
\* before, the scene left by a frame (position, rotation.y and scale of every
\* mesh, scale of every orbit line) is the one updatePhysics gives when it is
\* applied to the freshly built scene under that frame's date and settings.
C1_PoseDependsOnFrameInputsOnly ==
  frame.ticks > 0 =>
    scene = updatePhysics(frame.date, activeBodies, frame.settings, FreshScene)

\* A second frame, run under settings and a date that differ from those the
\* scene was last posed with.
C1_SecondFrameUnderNewInputs ==
  /\ frame.ticks = 2
  /\ frame.settings.planetVisualScale # DEFAULTS.planetVisualScale
  /\ frame.date # frame.previous

\* The bodyObjects of the bodies given and of their satellites, to any depth,
\* as gatherMeshes walks them.
RECURSIVE gatherBodies(_)
gatherBodies(bodies) ==
  UNION {{bodies[k]} \cup gatherBodies(bodies[k].satellites) : k \in DOMAIN bodies}

Origin == Vec(Zero, Zero, Zero)

\* C2: after every frame, every body whose semi-major axis a is 0, star or
\* not, is at the origin of its parent's frame: its mesh has position
\* (0, 0, 0).
C2_ZeroAxisBodyAtParentOrigin ==
  frame.ticks > 0 =>
    \A body \in gatherBodies(activeBodies) :
      IsZero(body.data.elements.a) => scene.meshes[body.mesh].position = Origin

\* |x - y| <= tol, for finite x and y
Close(x, y, tol) == IsFinite(x) /\ IsFinite(y) /\ FLe(FAbs(FSub(x, y)), tol)

\* The satellites: the bodyObjects whose mesh hangs under another mesh.
Satellites == {body \in gatherBodies(activeBodies) : isSatelliteIn(body.mesh, scene.meshes)}

\* The bodyObject whose mesh is the parent of the satellite's mesh
ParentOf(sat) ==
  CHOOSE body \in gatherBodies(activeBodies) : body.mesh = scene.meshes[sat.mesh].parent

\* The scale of a satellite in world space: the scale of its parent's mesh
\* times its own.
WorldScale(sat) == FMul(parentScaleOf(sat.mesh, scene.meshes)[1], scene.meshes[sat.mesh].scale[1])

\* Rounding allowed on a product or quotient of scales: two units of the last
\* digit kept.
ScaleTolerance == P(0, 2)

\* C3 as stated: the world-space scale of a satellite is the same after a
\* frame under one planetVisualScale as after the next frame under another.
C3_WorldScaleSameUnderAnyPlanetScale ==
  [][(/\ frame.ticks > 0
      /\ frame'.ticks = frame.ticks + 1
      /\ frame'.settings.planetVisualScale # frame.settings.planetVisualScale)
     => \A sat \in Satellites : WorldScale(sat)' = WorldScale(sat)]_vars

\* C3, amended: what planetVisualScale leaves alone is the scale of a
\* satellite relative to its parent, radius / parent radius (0.0035 / 0.013
\* under 5 as under 10); its world-space scale is its own radius times
\* planetVisualScale, whatever the radius of the parent.
C3_WorldScaleIsRadiusTimesPlanetScale ==
  frame.ticks > 0 =>
    \A sat \in Satellites :
      /\ Close(scene.meshes[sat.mesh].scale[1],
               FDiv(sat.data.radius, ParentOf(sat).data.radius), ScaleTolerance)
      /\ Close(WorldScale(sat),
               FMul(sat.data.radius, frame.settings.planetVisualScale), ScaleTolerance)

\* A second frame, under planetVisualScale = 10, has posed a satellite of
\* radius 0.0035 under a parent of radius 0.013.
C3_MoonPosedUnderTen ==
  /\ frame.ticks = 2
  /\ frame.settings.planetVisualScale = P(10, 0)
  /\ SETTINGS.planetVisualScale = P(10, 0)
  /\ \E sat \in Satellites :
       /\ sat.data.radius = P(0, 00350000)
       /\ ParentOf(sat).data.radius = P(0, 01300000)
       /\ Close(WorldScale(sat), P(0, 03500000), ScaleTolerance)

\* Every coordinate of v is within tol of that of w.
VecClose(v, w, tol) == \A i \in 1..3 : Close(v[i], w[i], tol)

\* v.multiply(w), coordinate by coordinate
multiply(v, w) == Vec(FMul(v[1], w[1]), FMul(v[2], w[2]), FMul(v[3], w[3]))

\* The position of the satellite, taken out of the frame of its scaled parent:
\* its local position times the scale of the parent's mesh.
WorldOffset(sat) ==
  multiply(scene.meshes[sat.mesh].position, parentScaleOf(sat.mesh, scene.meshes))

\* orbitPosition x universeScale x (distanceFactor, or 50 when unset), at the
\* date and under the settings of the last frame
OrbitOffset(sat) ==
  multiplyScalar(
    multiplyScalar(
      getOrbitPosition(sat.data.elements,
                       getMeanAnomaly(sat.data.elements, getJulianDate(frame.date))),
      frame.settings.universeScale),
    IF sat.data.distanceFactor = Undefined THEN P(50, 0) ELSE sat.data.distanceFactor)

\* Rounding allowed on a position divided by a scale and multiplied by it
\* again: two units of the last digit kept.
PositionTolerance == P(0, 2)

\* C4: after a frame, for a satellite directly under a top-level body, the
\* local position times the scale of the parent set in that frame is
\* orbitPosition x universeScale x (distanceFactor, or 50 when unset), whatever
\* planetVisualScale and the radius of the parent are.
C4_SatelliteDistanceKeptInWorldSpace ==
  frame.ticks > 0 =>
    \A sat \in Satellites :
      ~isSatelliteIn(ParentOf(sat).mesh, scene.meshes) =>
        VecClose(WorldOffset(sat), OrbitOffset(sat), PositionTolerance)

\* A frame under planetVisualScale = 10 has placed, away from its parent, a
\* satellite that has no distanceFactor.
C4_PlainMoonPlacedUnderTen ==
  /\ frame.ticks > 0
  /\ frame.settings.planetVisualScale = P(10, 0)
  /\ \E sat \in Satellites :
       /\ sat.data.distanceFactor = Undefined
       /\ ~isSatelliteIn(ParentOf(sat).mesh, scene.meshes)
       /\ ~IsZero(scene.meshes[sat.mesh].position[1])

\* A configuration error in an entry of the table: a rotation period of zero,
\* an eccentricity below 0 or not below 1, or a negative semi-major axis of a
\* body that orbits.
ConfigurationError(data) ==
  \/ IsZero(data.rotPeriod)
  \/ FLt(data.elements.e, Zero)
  \/ FLe(One, data.elements.e)
  \/ (~data.isStar /\ FLt(data.elements.a, Zero))

\* C5: a table with a configuration error is rejected when it is loaded, so
\* no frame ever runs updatePhysics on a body that has one.
C5_NoFrameOnMisconfiguredBody ==
  frame.ticks > 0 =>
    \A body \in gatherBodies(activeBodies) : ~ConfigurationError(body.data)

\* |E - e sin E - M|
KeplerResidual(e, Mrad, E) == FAbs(FSub(FSub(E, FMul(e, Sin(E))), Mrad))

\* C6: for e in [0, 0.9] and M in [0, 2 pi) the eccentric anomaly E that the
\* Newton loop of getOrbitPosition ends with has |E - e sin E - M| < 1e-5.
C6_KeplerResidualBelowBound ==
  (call.fn = "getOrbitPosition" /\ call.returned) =>
    FLt(KeplerResidual(call.args.e, call.args.M, call.result.E), P(0, 00001000))

\* The loop has run on e = 0.9 and has taken several passes to stop on a small
\* correction.
C6_LoopConvergedAtHighEccentricity ==
  /\ call.fn = "getOrbitPosition" /\ call.returned
  /\ call.args.e = P(0, 90000000)
  /\ call.result.iter >= 4 /\ call.result.iter < 100
  /\ FLe(FAbs(call.result.delta), P(0, 100))

\* C7: getJulianDate gives the same Julian Date for the same instant whatever
\* time-zone offset the environment has.
C7_JulianDateSameInEveryTimeZone ==
  (call.fn = "getJulianDate" /\ call.returned) =>
    \A offset \in Offsets :
      getJulianDate([time |-> call.args.time, timezoneOffset |-> offset]) = call.result

\* The milliseconds from one date to another, as a number
Elapsed(from, to) ==
  IF MagLe(from.time, to.time) THEN FromInt(WordOf(MagSub(to.time, from.time)))
  ELSE FNeg(FromInt(WordOf(MagSub(from.time, to.time))))

\* C8: every frame moves the simulated timestamp by exactly
\* delta x speedMultiplier x 1000 milliseconds; while speedMultiplier is 0 a
\* frame leaves the timestamp as it is and, with unchanged settings, leaves
\* every pose as the frame before left it.
C8_FrameAdvancesTimestampExactly ==
  [][frame'.ticks = frame.ticks + 1 =>
       /\ Elapsed(simulationDate, simulationDate') = timeStepOf(frame'.delta, speedMultiplier)
       /\ speedMultiplier = 0 =>
            /\ simulationDate' = simulationDate
            /\ (frame.ticks > 0 /\ frame.date = simulationDate /\ frame.settings = SETTINGS)
                 => scene' = scene]_vars

\* The change of getMeanAnomaly from one date to another, in degrees times
\* 86400000: getMeanAnomaly is L + n x days - w, so its change is n times the
\* days between the dates, which are the milliseconds between them over
\* 86400000.
ProgressOver(elements, from, to) == FMul(MeanMotion(elements), Elapsed(from, to))

\* C9: from the timestamp a frame started at and for the elapsed time it
\* read, a frame under the opposite speedMultiplier changes the mean anomaly
\* of every orbiting body by the negation of the change this frame made.
C9_OppositeSpeedNegatesProgress ==
  frame.ticks > 0 =>
    \A body \in gatherBodies(activeBodies) :
      ~body.data.isStar =>
        ProgressOver(body.data.elements, frame.previous,
                     DatePlus(frame.previous, timeStepOf(frame.delta, -frame.speed)))
          = FNeg(ProgressOver(body.data.elements, frame.previous, frame.date))

\* C10: for a body with a > 0, getMeanAnomaly one orbital period P = 360 / n
\* after jd is the mean anomaly at jd modulo 360 degrees, within 1e-3 degrees:
\* it is larger by one turn.
C10_PeriodReturnsMeanAnomaly ==
  (call.fn = "getMeanAnomaly" /\ call.returned) =>
    FLt(FAbs(FSub(FSub(call.result.later, call.result.start), P(360, 0))), P(0, 00100000))

\* getMeanAnomaly has been taken for the Moon, whose period is the shortest of
\* the table, at a date of 2026 and one period later.
C10_MoonOnePeriodLater ==
  /\ call.fn = "getMeanAnomaly" /\ call.returned
  /\ call.args.elements = Moon.elements
  /\ call.args.jd = P(2461345, 89814814)
  /\ FGt(call.result.later, call.result.start)

\* C11 as stated: for the orbit of the fixture at JD 2451545.0 getMeanAnomaly
\* returns L - w, about -2.48284 degrees, and getOrbitPosition of it returns a
\* position near (0.98, 0, 0.17).
C11_FixturePositionAsStated ==
  (call.fn = "positionAt" /\ call.returned /\ call.args.elements = FixtureOrbit
     /\ call.args.jd = P(2451545, 0)) =>
    /\ Close(call.result.currentM, M(2, 48284000), P(0, 1000))
    /\ VecClose(call.result.pos, Vec(P(0, 98000000), Zero, P(0, 17000000)), P(0, 05000000))

\* C11: for the orbit of the fixture at JD 2451545.0 getMeanAnomaly returns
\* L - w, about -2.48284 degrees, and getOrbitPosition of it returns a position
\* near (-0.177, 0, 0.967): 0.983 from the origin, at the longitude of the
\* Earth on that date.
C11_FixturePosition ==
  (call.fn = "positionAt" /\ call.returned /\ call.args.elements = FixtureOrbit
     /\ call.args.jd = P(2451545, 0)) =>
    /\ call.result.currentM = FSub(FixtureOrbit.L, FixtureOrbit.w)
    /\ Close(call.result.currentM, M(2, 48284000), P(0, 1000))
    /\ VecClose(call.result.pos, Vec(M(0, 17700000), Zero, P(0, 96700000)), P(0, 00100000))

\* The position of the fixture has been computed at JD 2451545.0.
C11_FixtureComputed ==
  /\ call.fn = "positionAt" /\ call.returned
  /\ call.args.elements = FixtureOrbit /\ call.args.jd = P(2451545, 0)
  /\ IsFinite(call.result.pos[1]) /\ call.result.pos[1].neg

\* C12: once init has run, STATE.activeBodies and the satellites list of every
\* body hold the bodyObjects createSolarSystem made, in its order, and the
\* scene holds the meshes it made under the parents it gave them, whatever
\* frames, speed clicks, setting changes, canvas clicks and resets have run.
C12_BodySetFixedAfterStartup ==
  /\ activeBodies = Loaded(CELESTIAL_BODIES).activeBodies
  /\ DOMAIN scene.meshes = DOMAIN Loaded(CELESTIAL_BODIES).scene.meshes
  /\ \A mesh \in DOMAIN scene.meshes :
       scene.meshes[mesh].parent = Loaded(CELESTIAL_BODIES).scene.meshes[mesh].parent

\* A frame, a change of a setting and a click on a body have run, and the Sun
\* and the Earth with its Moon are there.
C12_BodiesThereAfterHandlers ==
  /\ steps = MaxSteps /\ frame.ticks > 0
  /\ focusedBody # Null /\ SETTINGS # DEFAULTS
  /\ Len(activeBodies) = 2 /\ Len(activeBodies[2].satellites) = 1

\* The vector getOrbitPosition returns when its loop has ended with E
PositionFrom(elements, E) ==
  Ecliptic(OrbitalPlane(elements.a, elements.e, E),
           Angles(FMul(elements.o, DEG_TO_RAD),
                  FMul(FSub(elements.w, elements.o), DEG_TO_RAD),
                  FMul(elements.i, DEG_TO_RAD)))

\* C13: the Newton loop of getOrbitPosition ends after at least one and at
\* most 100 passes for any e and M; when it ends at the cap with a correction
\* still above 1e-6, a vector is returned all the same, computed from the
\* last E.
C13_LoopEndsWithinCap ==
  (call.fn = "orbitPosition" /\ call.returned) =>
    /\ call.result.loop.iter >= 1 /\ call.result.loop.iter <= 100
    /\ ~KeplerContinue(call.result.loop)
    /\ call.result.position = PositionFrom(call.args.elements, call.result.loop.E)

\* The loop has run on e = 1.5 and M of half a radian and has ended at the
\* cap, its correction still above 1e-6, and a vector has been returned: its
\* components are NaN, Math.sqrt(1 - e * e) being NaN for this e.
C13_LoopEndedAtCap ==
  /\ call.fn = "orbitPosition" /\ call.returned
  /\ call.args.elements.e = P(1, 50000000) /\ call.args.M_degrees = P(28, 64788976)
  /\ call.result.loop.iter = 100
  /\ FGt(FAbs(call.result.loop.delta), P(0, 100))
  /\ IsFinite(call.result.loop.E)
  /\ \A i \in 1..3 : IsNaN(call.result.position[i])

\* The path p comes before the path q where a walk of the tree that takes the
\* bodies of a list in their order, and each body before its satellites,
\* meets p before q.
PathBefore(p, q) ==
  \/ Len(p) < Len(q) /\ SubSeq(q, 1, Len(p)) = p
  \/ \E i \in 1..Len(p) :
       /\ i <= Len(q)
       /\ SubSeq(p, 1, i - 1) = SubSeq(q, 1, i - 1)
       /\ p[i] < q[i]

\* C14: in a frame updatePhysics sets the pose of every body of the tree once,
\* the top-level bodies in the order of the table and each body before its
\* satellites, depth first; a satellite's scale is taken against the scale
\* its parent got in the same frame; and a frame that follows another walks
\* the bodies in the same order, there being one order only that takes every
\* body once and in which each path comes before the next.
C14_BodiesWalkedInTableOrder ==
  frame.ticks > 0 =>
    /\ {scene.written[k] : k \in DOMAIN scene.written} = DOMAIN scene.meshes
    /\ Len(scene.written) = Cardinality(DOMAIN scene.meshes)
    /\ \A k \in 1..(Len(scene.written) - 1) :
         PathBefore(scene.written[k], scene.written[k + 1])
    /\ \A sat \in Satellites :
         scene.meshes[sat.mesh].scale[1]
           = FDiv(FMul(sat.data.radius, frame.settings.planetVisualScale),
                  scene.meshes[ParentOf(sat).mesh].scale[1])

\* A second frame, under a planetVisualScale other than that of the first, has
\* walked the Sun, the Earth, its first satellite, the satellite of that
\* satellite and then the second satellite of the Earth.
C14_NestedTableWalkedTwice ==
  /\ frame.ticks = 2
  /\ frame.settings.planetVisualScale = P(10, 0)
  /\ scene.written = <<(<<1>>), <<2>>, <<2, 1>>, <<2, 1, 1>>, <<2, 2>>>>

\* C15: what the last frame read of the poses (for the focused body, for the
\* table of updateUI and for the renderer) is what the scene holds, from the
\* end of that frame until the next: the frame read the poses updatePhysics
\* had set in it, and no handler other than a frame has set the position,
\* rotation or scale of a mesh or the scale of an orbit line since.
C15_PosesReadAfterUpdate ==
  frame.ticks > 0 =>
    /\ frame.seen.rendered = [meshes |-> scene.meshes, lines |-> scene.lines]
    /\ \A mesh \in DOMAIN frame.seen.tracked :
         frame.seen.tracked[mesh] = scene.meshes[mesh]
    /\ \A k \in DOMAIN activeBodies :
         frame.seen.listed[k] = scene.meshes[activeBodies[k].mesh].position

\* A second frame has run with a body focused, at a date later than that of
\* the first, and has read the pose of the focused body, which has moved
\* since the first.
C15_FocusedBodyReadInSecondFrame ==
  /\ frame.ticks = 2
  /\ DOMAIN frame.seen.tracked = {<<2>>}
  /\ frame.date # frame.previous
  /\ steps > 2

\* C16: every body posed in a frame has been posed under one and the same
\* planetVisualScale and universeScale, those SETTINGS held when the frame
\* began: no handler runs inside a pass of updatePhysics.  The scale of every
\* mesh and of every orbit line is the one that follows from these two values
\* (against the scale of the parent, for a satellite).
C16_OneSettingsPerFrame ==
  frame.ticks > 0 =>
    \A body \in gatherBodies(activeBodies) :
      /\ scene.meshes[body.mesh].scale =
           Uniform(ScaleOf(body.mesh, body.data, frame.settings, scene.meshes))
      /\ body.orbitLine # Null =>
           scene.lines[body.orbitLine] =
             Uniform(LineScaleOf(body.mesh, body.data, frame.settings, scene.meshes))

\* A second frame has posed the five bodies of the nested table under a
\* universeScale set between the two frames.
C16_FrameAfterSliderInput ==
  /\ frame.ticks = 2
  /\ frame.settings.universeScale = P(3, 0)
  /\ Len(scene.written) = 5
  /\ scene.lines[<<2, 2>>] # Loaded(CELESTIAL_BODIES).scene.lines[<<2, 2>>]

\* The hours from the Unix epoch to the date: getTime() / 3600000
HoursSinceEpoch(date) == OfMag(FALSE, MagDiv(date.time, <<0, 3600000>>))

\* C17: after a frame the rotation.y of every body, the star and the
\* satellites among them, is (elapsed hours / rotPeriod) x 2 pi, the hours
\* counted from the Unix epoch to the date of the frame; two bodies whose
\* rotPeriod differ in sign only are turned by opposite angles.
C17_RotationFollowsTimestamp ==
  frame.ticks > 0 =>
    /\ \A body \in gatherBodies(activeBodies) :
         scene.meshes[body.mesh].rotationY =
           FMul(FDiv(HoursSinceEpoch(frame.date), body.data.rotPeriod), TWO_PI)
    /\ \A body, other \in gatherBodies(activeBodies) :
         body.data.rotPeriod = FNeg(other.data.rotPeriod) =>
           scene.meshes[body.mesh].rotationY = FNeg(scene.meshes[other.mesh].rotationY)

\* A frame has turned the Sun, a retrograde body with its satellite and the
\* same body made prograde, the last two by opposite angles other than 0.
C17_OppositeSpinsPosed ==
  /\ frame.ticks > 0
  /\ Len(scene.written) = 4
  /\ scene.meshes[<<2>>].rotationY.neg /\ ~scene.meshes[<<3>>].rotationY.neg
  /\ ~IsZero(scene.meshes[<<3>>].rotationY)
  /\ ~IsZero(scene.meshes[<<1>>].rotationY) /\ ~IsZero(scene.meshes[<<2, 1>>].rotationY)

\* The point of the orbital plane turned by the angle given, in degrees, about
\* the axis that stands on the plane
Turned(p, degrees) ==
  [x |-> FSub(FMul(p.X_orb, Cos(FMul(degrees, DEG_TO_RAD))),
              FMul(p.Y_orb, Sin(FMul(degrees, DEG_TO_RAD)))),
   y |-> FAdd(FMul(p.X_orb, Sin(FMul(degrees, DEG_TO_RAD))),
              FMul(p.Y_orb, Cos(FMul(degrees, DEG_TO_RAD))))]

\* Rounding allowed on a coordinate computed along two routes
FrameTolerance == P(0, 1000)

\* An ellipse: 0 <= e < 1
Elliptic(elements) == FLe(Zero, elements.e) /\ FLt(elements.e, One)

\* C18: the vector getOrbitPosition returns has the out-of-plane component of
\* the ecliptic position as its second component and the in-plane ones as its
\* first and third.  For an ellipse with i = 0, whatever a, e, w and o, the
\* second component is 0 for every mean anomaly, and the first and third are
\* the point of the orbital plane turned by the longitude of perihelion w
\* (the node o and the argument of perihelion w - o, added up); for an
\* inclined ellipse the second component is sin i times the height of that
\* point over the line of nodes.
C18_VerticalComponentIsOutOfPlane ==
  (call.fn = "orbitPosition" /\ call.returned /\ Elliptic(call.args.elements)) =>
    /\ IsZero(call.args.elements.i) =>
         /\ IsZero(call.result.position[2])
         /\ Close(call.result.position[1],
                  Turned(OrbitalPlane(call.args.elements.a, call.args.elements.e,
                                      call.result.loop.E), call.args.elements.w).x,
                  FrameTolerance)
         /\ Close(call.result.position[3],
                  Turned(OrbitalPlane(call.args.elements.a, call.args.elements.e,
                                      call.result.loop.E), call.args.elements.w).y,
                  FrameTolerance)
    /\ Close(call.result.position[2],
             FMul(Sin(FMul(call.args.elements.i, DEG_TO_RAD)),
                  Turned(OrbitalPlane(call.args.elements.a, call.args.elements.e,
                                      call.result.loop.E),
                         FSub(call.args.elements.w, call.args.elements.o)).y),
             FrameTolerance)

\* getOrbitPosition has returned, for an orbit with i = 0, e = 0.9 and a node
\* other than 0, a position away from the axes of the plane, its second
\* component 0.
C18_FlatOrbitPlaced ==
  /\ call.fn = "orbitPosition" /\ call.returned
  /\ IsZero(call.args.elements.i)
  /\ call.args.elements.e = P(0, 90000000)
  /\ ~IsZero(call.args.elements.o)
  /\ call.args.M_degrees = P(90, 0)
  /\ IsZero(call.result.position[2])
  /\ ~IsZero(call.result.position[1]) /\ ~IsZero(call.result.position[3])

\* The product of the scales of the mesh and of the meshes above it: the scale
\* of the mesh in world space
RECURSIVE ChainScale(_)
ChainScale(mesh) ==
  IF Len(mesh) = 1 THEN scene.meshes[mesh].scale[1]
  ELSE FMul(ChainScale(SubSeq(mesh, 1, Len(mesh) - 1)), scene.meshes[mesh].scale[1])

\* C20: after every frame, for a satellite at any depth, the product of the
\* scales set by updateBodyPhysics from the top-level body above it down to the
\* satellite itself is the satellite's radius x planetVisualScale.
C20_WorldSizeKeptAtEveryDepth ==
  frame.ticks > 0 =>
    \A sat \in Satellites :
      Close(ChainScale(sat.mesh),
            FMul(sat.data.radius, frame.settings.planetVisualScale), ScaleTolerance)

\* The table keeps the rules of configuration: no entry has a configuration
\* error and every body that orbits has a > 0.
RulesKept ==
  \A body \in gatherBodies(activeBodies) :
    /\ ~ConfigurationError(body.data)
    /\ ~body.data.isStar => FGt(body.data.elements.a, Zero)

\* Every coordinate of the vector is a finite number.
FiniteVec(v) == \A i \in 1..3 : IsFinite(v[i])

\* C19: on a table that keeps the rules of configuration, under any
\* planetVisualScale and universeScale the sliders have set, a frame leaves
\* every body with a finite position, rotation and scale and every orbit line
\* with a finite scale: no division by zero has been met on the way.
C19_FrameTotalOnRuledTable ==
  (frame.ticks > 0 /\ RulesKept) =>
    \A body \in gatherBodies(activeBodies) :
      /\ FiniteVec(scene.meshes[body.mesh].position)
      /\ IsFinite(scene.meshes[body.mesh].rotationY)
      /\ FiniteVec(scene.meshes[body.mesh].scale)
      /\ body.orbitLine # Null => FiniteVec(scene.lines[body.orbitLine])

\* A body is in focus.
Focused(mesh) == Lineage(mesh) # {}

\* C21: the two resets are disjoint in effect.  A step of resetVisuals leaves
\* every field of SETTINGS at its value in DEFAULTS and focusedBody null, with
\* simulationDate and speedMultiplier as they were; a step of resetTime leaves
\* speedMultiplier at 1 and simulationDate at the wall-clock time, with every
\* field of SETTINGS and focusedBody as they were.  A step that puts a body
\* in focus where none was is set apart: it is one of onCanvasClick, never of
\* resetTime.
C21_ResetsDisjoint ==
  [][/\ resetVisuals =>
          /\ DOMAIN SETTINGS' = DOMAIN DEFAULTS
          /\ \A field \in DOMAIN DEFAULTS : SETTINGS'[field] = DEFAULTS[field]
          /\ ~Focused(focusedBody')
          /\ simulationDate' = simulationDate
          /\ speedMultiplier' = speedMultiplier
     /\ IF ~Focused(focusedBody) /\ Focused(focusedBody')
          THEN \E mesh \in Clicked : onCanvasClick(mesh)
          ELSE resetTime =>
                 /\ speedMultiplier' = 1
                 /\ \E now \in WallClock : simulationDate' = NewDate(now)
                 /\ \A field \in DOMAIN SETTINGS : SETTINGS'[field] = SETTINGS[field]
                 /\ Lineage(focusedBody') = Lineage(focusedBody)]_vars

\* A frame was drawn under an orbit opacity the slider had set, and
\* resetVisuals has run since: the settings are the defaults again, while the
\* speed and the date are those of the frame.
C21_SettingsResetAfterFrame ==
  /\ frame.ticks = 1
  /\ frame.settings.orbitOpacity # DEFAULTS.orbitOpacity
  /\ SETTINGS = DEFAULTS
  /\ focusedBody = Null
  /\ speedMultiplier = frame.speed
  /\ simulationDate = frame.date

\* A frame was drawn at 86400 times the speed of the clock, and resetTime has
\* run since: the speed is 1 and the date the wall-clock time again, while
\* the settings are those of the frame.
C21_TimeResetAfterFrame ==
  /\ frame.ticks = 1
  /\ frame.speed = 86400
  /\ speedMultiplier = 1
  /\ simulationDate # frame.date
  /\ \E now \in WallClock : simulationDate = NewDate(now)
  /\ SETTINGS = frame.settings
=============================================================================
